---- MODULE Spec2Model ----
(***************************************************************************)
(* Model of pycbc/workflow/summaryplots.py: the stage-setup routines that  *)
(* add summary-plot nodes and their dependency edges to a workflow, the    *)
(* dispatcher setup_summary_plots, and setup_hardware_injection_page.      *)
(*                                                                         *)
(* Strings are sequences of one-character strings, so that ''.join,        *)
(* upper(), lower(), str(), os.path.join and os.path.basename are computed *)
(* rather than assumed.                                                    *)
(***************************************************************************)
EXTENDS Integers, Sequences, FiniteSets, TLC

----------------------------------------------------------------------------
(* Bounds of the model.                                                    *)

\* number of top-level calls made on one workflow
MaxCalls == 1
\* longest tags list passed to a call
MaxTags == 2
\* longest detector list of a workflow (workflow.ifos)
MaxIfos == 3
\* longest input_files list passed to a call
MaxInputs == 2

----------------------------------------------------------------------------
(* String primitives.                                                      *)

UpperTable ==
    { <<"a", "A">>, <<"b", "B">>, <<"c", "C">>, <<"d", "D">>, <<"e", "E">>,
      <<"f", "F">>, <<"g", "G">>, <<"h", "H">>, <<"i", "I">>, <<"j", "J">>,
      <<"k", "K">>, <<"l", "L">>, <<"m", "M">>, <<"n", "N">>, <<"o", "O">>,
      <<"p", "P">>, <<"q", "Q">>, <<"r", "R">>, <<"s", "S">>, <<"t", "T">>,
      <<"u", "U">>, <<"v", "V">>, <<"w", "W">>, <<"x", "X">>, <<"y", "Y">>,
      <<"z", "Z">> }

\* str.upper() on one character: letters a-z map to A-Z, the rest is kept
UpperChar(c) ==
    IF \E p \in UpperTable : p[1] = c
    THEN (CHOOSE p \in UpperTable : p[1] = c)[2]
    ELSE c

\* str.lower() on one character: letters A-Z map to a-z, the rest is kept
LowerChar(c) ==
    IF \E p \in UpperTable : p[2] = c
    THEN (CHOOSE p \in UpperTable : p[2] = c)[1]
    ELSE c

\* str.upper()
Upper(s) == [i \in 1..Len(s) |-> UpperChar(s[i])]

\* str.lower()
Lower(s) == [i \in 1..Len(s) |-> LowerChar(s[i])]

RECURSIVE Join(_)
\* ''.join(list)
Join(list) ==
    IF list = <<>> THEN <<>> ELSE Head(list) \o Join(Tail(list))

Digits == <<"0", "1", "2", "3", "4", "5", "6", "7", "8", "9">>

RECURSIVE Str(_)
\* str(n) of a non-negative integer
Str(n) ==
    IF n < 10 THEN <<Digits[n + 1]>>
    ELSE Str(n \div 10) \o <<Digits[(n % 10) + 1]>>

RECURSIVE Basename(_)
\* os.path.basename: what follows the last "/"
Basename(path) ==
    IF \E i \in 1..Len(path) : path[i] = "/"
    THEN Basename(Tail(path))
    ELSE path

\* os.path.join of a directory and a relative name
PathJoin(dir, name) ==
    IF dir = <<>> THEN name
    ELSE IF dir[Len(dir)] = "/" THEN dir \o name
    ELSE dir \o <<"/">> \o name

----------------------------------------------------------------------------
(* String literals of the source.                                          *)

OPT_GPS_START == <<"-", "-", "g", "p", "s", "-", "s", "t", "a", "r", "t", "-", "t", "i", "m", "e">>
OPT_GPS_END == <<"-", "-", "g", "p", "s", "-", "e", "n", "d", "-", "t", "i", "m", "e">>
OPT_CACHE_FILE == <<"-", "-", "c", "a", "c", "h", "e", "-", "f", "i", "l", "e">>
OPT_IFO_TIMES == <<"-", "-", "i", "f", "o", "-", "t", "i", "m", "e", "s">>
OPT_IFO_TAG == <<"-", "-", "i", "f", "o", "-", "t", "a", "g">>
OPT_USER_TAG == <<"-", "-", "u", "s", "e", "r", "-", "t", "a", "g">>
OPT_OUTPUT_PATH == <<"-", "-", "o", "u", "t", "p", "u", "t", "-", "p", "a", "t", "h">>
OPT_TRIG_PATTERN == <<"-", "-", "t", "r", "i", "g", "-", "p", "a", "t", "t", "e", "r", "n">>
OPT_BANK_PATTERN == <<"-", "-", "b", "a", "n", "k", "-", "p", "a", "t", "t", "e", "r", "n">>
OPT_COINC_PATTERN == <<"-", "-", "c", "o", "i", "n", "c", "-", "p", "a", "t", "t", "e", "r", "n">>
OPT_SLIDE_PATTERN == <<"-", "-", "s", "l", "i", "d", "e", "-", "p", "a", "t", "t", "e", "r", "n">>
OPT_ENABLE_OUTPUT == <<"-", "-", "e", "n", "a", "b", "l", "e", "-", "o", "u", "t", "p", "u", "t">>
OPT_SOURCE_XML == <<"-", "-", "s", "o", "u", "r", "c", "e", "-", "x", "m", "l">>
OPT_SEGMENT_DIR == <<"-", "-", "s", "e", "g", "m", "e", "n", "t", "-", "d", "i", "r">>
OPT_CACHE_PATTERN == <<"-", "-", "c", "a", "c", "h", "e", "-", "p", "a", "t", "t", "e", "r", "n">>
OPT_ANALYZE_INJ == <<"-", "-", "a", "n", "a", "l", "y", "z", "e", "-", "i", "n", "j", "e", "c", "t", "i", "o", "n", "s">>
OPT_OUTFILE == <<"-", "-", "o", "u", "t", "f", "i", "l", "e">>
FIRST_ == <<"F", "I", "R", "S", "T", "_">>
SECOND_ == <<"S", "E", "C", "O", "N", "D", "_">>
SUMMARY_PLOTS_SUFFIX == <<"_", "S", "U", "M", "M", "A", "R", "Y", "_", "P", "L", "O", "T", "S">>
TRIGGERS_SUFFIX == <<"-", "t", "r", "i", "g", "g", "e", "r", "s">>
INJECTIONS_SUFFIX == <<"-", "i", "n", "j", "e", "c", "t", "i", "o", "n", "s">>
HWINJ_SUMMARY == <<"H", "W", "I", "N", "J", "_", "S", "U", "M", "M", "A", "R", "Y">>
HTML == <<"h", "t", "m", "l">>
LOGS == <<"l", "o", "g", "s">>
\* '--%s-triggers' % ifo.lower()
TriggersOpt(ifo) == <<"-", "-">> \o Lower(ifo) \o TRIGGERS_SUFFIX
\* '--%s-injections' % ifo.lower()
InjectionsOpt(ifo) == <<"-", "-">> \o Lower(ifo) \o INJECTIONS_SUFFIX
\* add_opt(opt) without a value, and add_opt(opt, '')
NoValue == <<>>

----------------------------------------------------------------------------
(* The workflow-core collaborator (pycbc.workflow.core), as the routines   *)
(* of this file use it.                                                    *)

\* FileList([])
FileList(files) == files

\* Executable(cp, name, universe, ifos, out_dir, tags): the job descriptor;
\* ifo_list is the detector list and ifo_string its concatenation
Executable(cp, name, universe, ifos, out_dir, tags) ==
    [ name       |-> name,
      universe   |-> universe,
      ifo_list   |-> ifos,
      ifo_string |-> Join(ifos),
      out_dir    |-> out_dir,
      tags       |-> tags ]

\* Node(executable): a fresh node with no option and no declared output;
\* id stands for the identity of its _dax_node
Node(executable, id) ==
    [ id           |-> id,
      executable   |-> executable,
      options      |-> <<>>,
      output_files |-> <<>> ]

\* File(ifo, description, segment, extension=, directory=): an artifact
\* record with its storage path; node is 0 while no node has declared it
File(ifo_string, description, segment, extension, directory) ==
    [ ifo_string   |-> ifo_string,
      description  |-> description,
      segment      |-> segment,
      extension    |-> extension,
      storage_path |-> PathJoin(directory,
                          ifo_string \o <<"-">> \o description \o <<"-">>
                          \o Str(segment[1]) \o <<"-">>
                          \o Str(segment[2] - segment[1])
                          \o <<".">> \o extension),
      node         |-> 0 ]

\* workflow.add_node(node): registers the node with the workflow
add_node(workflow, node) ==
    [workflow EXCEPT !.nodes = Append(@, node)]

\* dax.Dependency(parent=, child=)
Dependency(parent, child) == [parent |-> parent, child |-> child]

\* workflow._adag.addDependency(dep), for each dep of a list in turn
addDependencies(workflow, deps) ==
    [workflow EXCEPT !.deps = @ \o deps]

\* the identity the next Node(...) gets
NextId(workflow) == Len(workflow.nodes) + 1

----------------------------------------------------------------------------
(* Pieces shared by the stage-setup routines.                              *)

\* make_parents with the loop left after its first pass
make_parents_first_only(input_files, node) ==
    IF input_files = <<>> THEN <<>>
    ELSE << Dependency(Head(input_files).node, node.id) >>

\* for f in input_files: dax.Dependency(parent=f.node._dax_node,
\* child=node._dax_node): the dependencies, in the order of the loop
make_parents(input_files, node) ==
    [i \in 1..Len(input_files) |-> Dependency(input_files[i].node, node.id)]

\* the statements "add node to workflow" and "make all input_files parents"
register(workflow, input_files, node) ==
    addDependencies(add_node(workflow, node), make_parents(input_files, node))

\* the (outer, inner) pairs a loop nested in a loop visits, in order
nested_loop(outer, inner) ==
    [k \in 1..(Len(outer) * Len(inner)) |->
        << outer[((k - 1) \div Len(inner)) + 1],
           inner[((k - 1) % Len(inner)) + 1] >>]

RECURSIVE Flatten(_)
\* the concatenation of a list of lists
Flatten(lists) ==
    IF lists = <<>> THEN <<>> ELSE Head(lists) \o Flatten(Tail(lists))

\* register for the nodes of every pass of a loop, in the order of the
\* passes: each node is added and then made a child of every input file
register_all(workflow, input_files, nodes) ==
    [workflow EXCEPT
        !.nodes = @ \o nodes,
        !.deps  = @ \o Flatten([j \in 1..Len(nodes) |->
                                   make_parents(input_files, nodes[j])])]

\* UserTag without the upper-casing: tag+'_SUMMARY_PLOTS'
UserTag_not_upper(tag) == tag \o SUMMARY_PLOTS_SUFFIX

\* tag.upper()+'_SUMMARY_PLOTS'
UserTag(tag) == Upper(tag) \o SUMMARY_PLOTS_SUFFIX

\* consecutive node.add_opt(opt, value) calls, in order
add_opts(node, opts) ==
    [node EXCEPT !.options =
        @ \o [i \in 1..Len(opts) |-> [opt |-> opts[i][1], val |-> opts[i][2]]]]

----------------------------------------------------------------------------
(* setup_plotinspiral                                                      *)

\* the node built for one (tag, ifo) pair
plotinspiral_node(workflow, job, cache_filename, inspiral_cachepattern, output_dir, tag, ifo, id) ==
    add_opts(Node(job, id),
        << <<OPT_GPS_START, Str(workflow.analysis_time[1])>>,
           <<OPT_GPS_END, Str(workflow.analysis_time[2])>>,
           <<OPT_CACHE_FILE, cache_filename>>,
           <<OPT_IFO_TIMES, ifo>>,
           <<OPT_IFO_TAG, FIRST_ \o ifo>>,
           <<OPT_USER_TAG, UserTag(tag)>>,
           <<OPT_OUTPUT_PATH, output_dir>>,
           <<OPT_TRIG_PATTERN, inspiral_cachepattern>>,
           <<OPT_ENABLE_OUTPUT, NoValue>> >>)

\* for tag in tags: for ifo in plotinspiral_job.ifo_list: one node,
\* numbered in the order of the passes
plotinspiral_tags(workflow, job, input_files, cache_filename, inspiral_cachepattern, output_dir, tags) ==
    LET passes == nested_loop(tags, job.ifo_list)
    IN  register_all(workflow, input_files,
            [k \in 1..Len(passes) |->
                plotinspiral_node(workflow, job, cache_filename,
                    inspiral_cachepattern, output_dir,
                    passes[k][1], passes[k][2], Len(workflow.nodes) + k)])

\* setup_plotinspiral with every node declaring an output file that is
\* appended to plot_files
setup_plotinspiral_returns_outputs(workflow, input_files, cache_filename, inspiral_cachepattern, output_dir, tags) ==
    LET plotinspiral_job == Executable(workflow.cp, "plotinspiral", "vanilla",
                                       workflow.ifos, output_dir, tags)
        after == plotinspiral_tags(workflow, plotinspiral_job, input_files,
                     cache_filename, inspiral_cachepattern, output_dir, tags)
        made == Len(after.nodes) - Len(workflow.nodes)
    IN  [ workflow   |-> after,
          plot_files |-> [j \in 1..made |->
                             [File(plotinspiral_job.ifo_string, <<"P">>,
                                   workflow.analysis_time, <<"p", "n", "g">>,
                                   output_dir)
                                EXCEPT !.node = Len(workflow.nodes) + j]] ]

\* the whole routine: the workflow it leaves and the list it returns
setup_plotinspiral(workflow, input_files, cache_filename, inspiral_cachepattern, output_dir, tags) ==
    LET plot_files == FileList(<<>>)
        plotinspiral_job == Executable(workflow.cp, "plotinspiral", "vanilla",
                                       workflow.ifos, output_dir, tags)
    IN  [ workflow   |-> plotinspiral_tags(workflow, plotinspiral_job,
                             input_files, cache_filename,
                             inspiral_cachepattern, output_dir, tags),
          plot_files |-> plot_files ]

----------------------------------------------------------------------------
(* setup_plotnumtemplates                                                  *)

\* the node built for one tag
plotnumtemplates_node(workflow, job, cache_filename, tmpltbank_cachepattern, output_dir, tag, id) ==
    add_opts(Node(job, id),
        << <<OPT_GPS_START, Str(workflow.analysis_time[1])>>,
           <<OPT_GPS_END, Str(workflow.analysis_time[2])>>,
           <<OPT_CACHE_FILE, cache_filename>>,
           <<OPT_IFO_TIMES, job.ifo_string>>,
           <<OPT_USER_TAG, UserTag(tag)>>,
           <<OPT_OUTPUT_PATH, output_dir>>,
           <<OPT_BANK_PATTERN, tmpltbank_cachepattern>>,
           <<OPT_ENABLE_OUTPUT, NoValue>> >>)

\* for tag in tags: one node, numbered in the order of the passes
plotnumtemplates_tags(workflow, job, input_files, cache_filename, tmpltbank_cachepattern, output_dir, tags) ==
    register_all(workflow, input_files,
        [k \in 1..Len(tags) |->
            plotnumtemplates_node(workflow, job, cache_filename,
                tmpltbank_cachepattern, output_dir, tags[k],
                Len(workflow.nodes) + k)])

\* setup_plotnumtemplates with the loop stopping one tag short
setup_plotnumtemplates_skips_last(workflow, input_files, cache_filename, tmpltbank_cachepattern, output_dir, tags) ==
    LET plotnumtemplates_job == Executable(workflow.cp, "plotnumtemplates",
                                    "vanilla", workflow.ifos, output_dir, tags)
    IN  [ workflow   |-> plotnumtemplates_tags(workflow, plotnumtemplates_job,
                             input_files, cache_filename,
                             tmpltbank_cachepattern, output_dir,
                             SubSeq(tags, 1, Len(tags) - 1)),
          plot_files |-> FileList(<<>>) ]

\* the whole routine
setup_plotnumtemplates(workflow, input_files, cache_filename, tmpltbank_cachepattern, output_dir, tags) ==
    LET plot_files == FileList(<<>>)
        plotnumtemplates_job == Executable(workflow.cp, "plotnumtemplates",
                                    "vanilla", workflow.ifos, output_dir, tags)
    IN  [ workflow   |-> plotnumtemplates_tags(workflow, plotnumtemplates_job,
                             input_files, cache_filename,
                             tmpltbank_cachepattern, output_dir, tags),
          plot_files |-> plot_files ]

----------------------------------------------------------------------------
(* setup_plotinspiralrange                                                 *)

\* the node built for one tag
plotinspiralrange_node(workflow, job, cache_filename, tmpltbank_cachepattern, inspiral_cachepattern, output_dir, tag, id) ==
    add_opts(Node(job, id),
        << <<OPT_GPS_START, Str(workflow.analysis_time[1])>>,
           <<OPT_GPS_END, Str(workflow.analysis_time[2])>>,
           <<OPT_CACHE_FILE, cache_filename>>,
           <<OPT_IFO_TIMES, job.ifo_string>>,
           <<OPT_USER_TAG, UserTag(tag)>>,
           <<OPT_OUTPUT_PATH, output_dir>>,
           <<OPT_BANK_PATTERN, tmpltbank_cachepattern>>,
           <<OPT_TRIG_PATTERN, inspiral_cachepattern>>,
           <<OPT_ENABLE_OUTPUT, NoValue>> >>)

\* for tag in tags: one node, numbered in the order of the passes
plotinspiralrange_tags(workflow, job, input_files, cache_filename, tmpltbank_cachepattern, inspiral_cachepattern, output_dir, tags) ==
    register_all(workflow, input_files,
        [k \in 1..Len(tags) |->
            plotinspiralrange_node(workflow, job, cache_filename,
                tmpltbank_cachepattern, inspiral_cachepattern, output_dir,
                tags[k], Len(workflow.nodes) + k)])

\* setup_plotinspiralrange with an empty tags list taken as one untagged
\* pass
setup_plotinspiralrange_untagged(workflow, input_files, cache_filename, tmpltbank_cachepattern, inspiral_cachepattern, output_dir, tags) ==
    LET plotinspiralrange_job == Executable(workflow.cp, "plotinspiralrange",
                                    "vanilla", workflow.ifos, output_dir, tags)
    IN  [ workflow   |-> plotinspiralrange_tags(workflow,
                             plotinspiralrange_job, input_files,
                             cache_filename, tmpltbank_cachepattern,
                             inspiral_cachepattern, output_dir,
                             IF tags = <<>> THEN << <<>> >> ELSE tags),
          plot_files |-> FileList(<<>>) ]

\* the whole routine
setup_plotinspiralrange(workflow, input_files, cache_filename, tmpltbank_cachepattern, inspiral_cachepattern, output_dir, tags) ==
    LET plot_files == FileList(<<>>)
        plotinspiralrange_job == Executable(workflow.cp, "plotinspiralrange",
                                    "vanilla", workflow.ifos, output_dir, tags)
    IN  [ workflow   |-> plotinspiralrange_tags(workflow,
                             plotinspiralrange_job, input_files,
                             cache_filename, tmpltbank_cachepattern,
                             inspiral_cachepattern, output_dir, tags),
          plot_files |-> plot_files ]

----------------------------------------------------------------------------
(* setup_plotthinca                                                        *)

RECURSIVE combinations(_, _)
\* itertools.combinations(iterable, r): the r-length subsequences of the
\* list, in lexicographic order of their positions
combinations(iterable, r) ==
    IF r = 0 THEN << <<>> >>
    ELSE IF Len(iterable) < r THEN <<>>
    ELSE LET rest == combinations(Tail(iterable), r - 1)
         IN  [i \in 1..Len(rest) |-> <<Head(iterable)>> \o rest[i]]
             \o combinations(Tail(iterable), r)

RECURSIVE ifo_combos_from(_, _)
\* for n in xrange(len(ifo_list)+1), from n on:
\*     for ifo_list in itertools.combinations(ifo_list, n+2): append
ifo_combos_from(ifo_list, n) ==
    IF n >= Len(ifo_list) + 1 THEN <<>>
    ELSE combinations(ifo_list, n + 2) \o ifo_combos_from(ifo_list, n + 1)

\* ifo_combos with the pairs only
ifo_combos_pairs_only(ifo_list) == combinations(ifo_list, 2)

\* all ifo combinations of at least 2 coincident ifos
ifo_combos(ifo_list) == ifo_combos_from(ifo_list, 0)

\* plotthinca_node with a triggers flag for every detector of the job
plotthinca_node_all_triggers(workflow, job, cache_filename, coinc_cachepattern, slide_cachepattern, output_dir, tag, ifo_list, id) ==
    LET ifo_string == Join(ifo_list)
    IN  add_opts(Node(job, id),
            << <<OPT_GPS_START, Str(workflow.analysis_time[1])>>,
               <<OPT_GPS_END, Str(workflow.analysis_time[2])>>,
               <<OPT_CACHE_FILE, cache_filename>>,
               <<OPT_IFO_TIMES, ifo_string>>,
               <<OPT_IFO_TAG, SECOND_ \o ifo_string>> >>
            \o [i \in 1..Len(job.ifo_list) |-> <<TriggersOpt(job.ifo_list[i]), NoValue>>]
            \o << <<OPT_USER_TAG, UserTag(tag)>>,
                  <<OPT_OUTPUT_PATH, output_dir>>,
                  <<OPT_COINC_PATTERN, coinc_cachepattern>>,
                  <<OPT_SLIDE_PATTERN, slide_cachepattern>>,
                  <<OPT_ENABLE_OUTPUT, NoValue>> >>)

\* the node built for one (tag, ifo combination) pair
plotthinca_node(workflow, job, cache_filename, coinc_cachepattern, slide_cachepattern, output_dir, tag, ifo_list, id) ==
    LET ifo_string == Join(ifo_list)
    IN  add_opts(Node(job, id),
            << <<OPT_GPS_START, Str(workflow.analysis_time[1])>>,
               <<OPT_GPS_END, Str(workflow.analysis_time[2])>>,
               <<OPT_CACHE_FILE, cache_filename>>,
               <<OPT_IFO_TIMES, ifo_string>>,
               <<OPT_IFO_TAG, SECOND_ \o ifo_string>> >>
            \o [i \in 1..Len(ifo_list) |-> <<TriggersOpt(ifo_list[i]), NoValue>>]
            \o << <<OPT_USER_TAG, UserTag(tag)>>,
                  <<OPT_OUTPUT_PATH, output_dir>>,
                  <<OPT_COINC_PATTERN, coinc_cachepattern>>,
                  <<OPT_SLIDE_PATTERN, slide_cachepattern>>,
                  <<OPT_ENABLE_OUTPUT, NoValue>> >>)

\* for tag in tags: for ifo_list in ifo_combos: one node, numbered in the
\* order of the passes
plotthinca_tags(workflow, job, input_files, cache_filename, coinc_cachepattern, slide_cachepattern, output_dir, tags, combos) ==
    LET passes == nested_loop(tags, combos)
    IN  register_all(workflow, input_files,
            [k \in 1..Len(passes) |->
                plotthinca_node(workflow, job, cache_filename,
                    coinc_cachepattern, slide_cachepattern, output_dir,
                    passes[k][1], passes[k][2], Len(workflow.nodes) + k)])

\* the whole routine
setup_plotthinca(workflow, input_files, cache_filename, coinc_cachepattern, slide_cachepattern, output_dir, tags) ==
    LET plot_files == FileList(<<>>)
        plotthinca_job == Executable(workflow.cp, "plotthinca", "vanilla",
                                     workflow.ifos, output_dir, tags)
    IN  [ workflow   |-> plotthinca_tags(workflow, plotthinca_job,
                             input_files, cache_filename, coinc_cachepattern,
                             slide_cachepattern, output_dir, tags,
                             ifo_combos(plotthinca_job.ifo_list)),
          plot_files |-> plot_files ]

----------------------------------------------------------------------------
(* setup_hardware_injection_page, in the steps the external calls cut it   *)
(* into.                                                                   *)

\* hwinjDefNewPath = os.path.join(output_dir, os.path.basename(hwinjDefUrl))
hwinjDefNewPath(workflow, output_dir) ==
    PathJoin(output_dir, Basename(workflow.cp.hwinj_definer_url))

\* cp_set_definer_file with the store left out
cp_set_definer_file_dropped(workflow, path) == workflow

\* workflow.cp.set("workflow-hardware-injections", "hwinj-definer-file", path)
cp_set_definer_file(workflow, path) ==
    [workflow EXCEPT !.cp.hwinj_definer_file = path]

\* outfile = File(node.executable.ifo_string, 'HWINJ_SUMMARY', ...)
hwinj_outfile(workflow, job, output_dir) ==
    File(job.ifo_string, HWINJ_SUMMARY, workflow.analysis_time, HTML, output_dir)

\* the single node of the hardware injection page
hwinj_node(workflow, job, cache_filename, inspiral_cachepattern, output_dir) ==
    add_opts(Node(job, NextId(workflow)),
        << <<OPT_GPS_START, Str(workflow.analysis_time[1])>>,
           <<OPT_GPS_END, Str(workflow.analysis_time[2])>>,
           <<OPT_SOURCE_XML, hwinjDefNewPath(workflow, output_dir)>>,
           <<OPT_SEGMENT_DIR, output_dir>>,
           <<OPT_CACHE_FILE, cache_filename>>,
           <<OPT_CACHE_PATTERN, inspiral_cachepattern>>,
           <<OPT_ANALYZE_INJ, NoValue>> >>
        \o [i \in 1..Len(workflow.ifos) |-> <<InjectionsOpt(workflow.ifos[i]), NoValue>>]
        \o << <<OPT_OUTFILE, hwinj_outfile(workflow, job, output_dir).storage_path>> >>)

\* lines 397-424: create the node, register it, make the input files its
\* parents, and return out_files + node.output_files
hwinj_create_node(workflow, input_files, cache_filename, inspiral_cachepattern, output_dir, tags) ==
    LET out_files == FileList(<<>>)
        hwinjpage_job == Executable(workflow.cp, "hardware_injection_page",
                                    "vanilla", workflow.ifos, output_dir, tags)
        node == hwinj_node(workflow, hwinjpage_job, cache_filename,
                           inspiral_cachepattern, output_dir)
    IN  [ workflow   |-> register(workflow, input_files, node),
          plot_files |-> out_files \o node.output_files ]

----------------------------------------------------------------------------
(* The values calls are made with.                                         *)

H1 == <<"H", "1">>
L1 == <<"L", "1">>
V1 == <<"V", "1">>
G1 == <<"G", "1">>
K1 == <<"K", "1">>
IfoPool == <<H1, L1, V1, G1, K1>>

full_data == <<"f", "u", "l", "l", "_", "d", "a", "t", "a">>
playground == <<"p", "l", "a", "y", "g", "r", "o", "u", "n", "d">>
injections == <<"i", "n", "j">>
TagPool == <<full_data, playground, injections>>

Min(a, b) == IF a < b THEN a ELSE b

\* the detector lists a workflow may have
IfoLists == { SubSeq(IfoPool, 1, k) : k \in 0..Min(MaxIfos, Len(IfoPool)) }

\* the tags lists a call may be given
TagLists == { SubSeq(TagPool, 1, k) : k \in 0..Min(MaxTags, Len(TagPool)) }

\* the analysis windows a workflow may have
AnalysisTimes == { <<9, 12>>, <<100, 205>> }

\* input_files lists: files produced by the upstream nodes 1..k
InputLists == { [i \in 1..k |-> [node |-> i]] : k \in 0..MaxInputs }

CacheFilename == <<"c">>
TmpltbankPattern == <<"T">>
InspiralPattern == <<"I">>
CoincPattern == <<"C">>
SlidePattern == <<"S">>
OutputDir == <<"o">>
DefinerUrl == <<"u", "/", "d">>

----------------------------------------------------------------------------
(* State.                                                                  *)

VARIABLES
    workflow,   \* nodes, deps (the DAG's edges), ifos, analysis_time, cp
    fs,         \* directories, fetched files, directories holding segments
    pc,         \* where the running call stands; "idle" between calls
    call,       \* the running or last call: arguments, the workflow as it
                \* was on entry, status, the call that raised, the returned
                \* file list
    ncalls      \* calls made so far

vars == <<workflow, fs, pc, call, ncalls>>

\* the upstream nodes that produced the input files
UpstreamNode(cp, ifos, id) ==
    Node(Executable(cp, "inspiral", "vanilla", ifos, OutputDir, <<>>), id)

Init ==
    /\ \E ifos \in IfoLists, analysis_time \in AnalysisTimes :
          LET cp == [ hwinj_definer_url  |-> DefinerUrl,
                      hwinj_definer_file |-> <<>> ]
          IN  workflow = [ nodes |-> [i \in 1..MaxInputs |-> UpstreamNode(cp, ifos, i)],
                           deps  |-> <<>>,
                           ifos  |-> ifos,
                           analysis_time |-> analysis_time,
                           cp    |-> cp ]
    /\ fs = [ dirs |-> {}, files |-> {}, segment_dirs |-> {} ]
    /\ pc = "idle"
    /\ call = [ routine |-> "none", tags |-> <<>>, input_files |-> <<>>,
                workflow0 |-> workflow, status |-> "none", error |-> "",
                plot_files |-> <<>>, stage_files |-> <<>> ]
    /\ ncalls = 0

\* a call is entered: its frame
Enter(routine, tags, input_files) ==
    [ routine |-> routine, tags |-> tags, input_files |-> input_files,
      workflow0 |-> workflow, status |-> "running", error |-> "",
      plot_files |-> <<>>, stage_files |-> <<>> ]

\* if not os.path.exists(d): os.makedirs(d)
makedirs(d) == [fs EXCEPT !.dirs = @ \cup {d}]

CanCall == pc = "idle" /\ ncalls < MaxCalls

----------------------------------------------------------------------------
(* The four plot routines called on their own.                             *)

CallPlotInspiral ==
    /\ CanCall
    /\ \E tags \in TagLists, input_files \in InputLists :
          LET r == setup_plotinspiral(workflow, input_files, CacheFilename,
                                      InspiralPattern, OutputDir, tags)
          IN  /\ workflow' = r.workflow
              /\ call' = [Enter("setup_plotinspiral", tags, input_files)
                            EXCEPT !.status = "returned",
                                   !.plot_files = r.plot_files]
    /\ ncalls' = ncalls + 1
    /\ UNCHANGED <<fs, pc>>

CallPlotNumTemplates ==
    /\ CanCall
    /\ \E tags \in TagLists, input_files \in InputLists :
          LET r == setup_plotnumtemplates(workflow, input_files, CacheFilename,
                                          TmpltbankPattern, OutputDir, tags)
          IN  /\ workflow' = r.workflow
              /\ call' = [Enter("setup_plotnumtemplates", tags, input_files)
                            EXCEPT !.status = "returned",
                                   !.plot_files = r.plot_files]
    /\ ncalls' = ncalls + 1
    /\ UNCHANGED <<fs, pc>>

CallPlotThinca ==
    /\ CanCall
    /\ \E tags \in TagLists, input_files \in InputLists :
          LET r == setup_plotthinca(workflow, input_files, CacheFilename,
                                    CoincPattern, SlidePattern, OutputDir, tags)
          IN  /\ workflow' = r.workflow
              /\ call' = [Enter("setup_plotthinca", tags, input_files)
                            EXCEPT !.status = "returned",
                                   !.plot_files = r.plot_files]
    /\ ncalls' = ncalls + 1
    /\ UNCHANGED <<fs, pc>>

CallPlotInspiralRange ==
    /\ CanCall
    /\ \E tags \in TagLists, input_files \in InputLists :
          LET r == setup_plotinspiralrange(workflow, input_files, CacheFilename,
                       TmpltbankPattern, InspiralPattern, OutputDir, tags)
          IN  /\ workflow' = r.workflow
              /\ call' = [Enter("setup_plotinspiralrange", tags, input_files)
                            EXCEPT !.status = "returned",
                                   !.plot_files = r.plot_files]
    /\ ncalls' = ncalls + 1
    /\ UNCHANGED <<fs, pc>>

----------------------------------------------------------------------------
(* setup_summary_plots, one step per stage it calls.                       *)

\* plotinspiral_files = setup_plotinspiral(...)
plotinspiral_files(wf, input_files, cache_filename, tmpltbank_cachepattern, inspiral_cachepattern, output_dir, tags) ==
    setup_plotinspiral(wf, input_files, cache_filename,
                       inspiral_cachepattern, output_dir, tags)

\* plotinspiralrange_files with setup_plotnumtemplates called in its place
plotinspiralrange_files_swapped(wf, input_files, cache_filename, tmpltbank_cachepattern, inspiral_cachepattern, output_dir, tags) ==
    setup_plotnumtemplates(wf, input_files, cache_filename,
                           tmpltbank_cachepattern, output_dir, tags)

\* plotinspiralrange_files = setup_plotinspiralrange(...)
plotinspiralrange_files(wf, input_files, cache_filename, tmpltbank_cachepattern, inspiral_cachepattern, output_dir, tags) ==
    setup_plotinspiralrange(wf, input_files, cache_filename,
                            tmpltbank_cachepattern, inspiral_cachepattern,
                            output_dir, tags)

\* plotnumtemplates_files = setup_plotnumtemplates(...)
plotnumtemplates_files(wf, input_files, cache_filename, tmpltbank_cachepattern, inspiral_cachepattern, output_dir, tags) ==
    setup_plotnumtemplates(wf, input_files, cache_filename,
                           tmpltbank_cachepattern, output_dir, tags)

\* plot_files += plotinspiral_files; += plotinspiralrange_files;
\* += plotnumtemplates_files
concatenate_plot_files(stage_files) ==
    FileList(<<>>) \o stage_files[1] \o stage_files[2] \o stage_files[3]

SummaryPlotsEnter ==
    /\ CanCall
    /\ \E tags \in TagLists, input_files \in InputLists :
          call' = Enter("setup_summary_plots", tags, input_files)
    /\ fs' = makedirs(OutputDir)
    /\ pc' = "sp_plotinspiral"
    /\ ncalls' = ncalls + 1
    /\ UNCHANGED workflow

SummaryPlotsPlotInspiral ==
    /\ pc = "sp_plotinspiral"
    /\ LET r == plotinspiral_files(workflow, call.input_files, CacheFilename,
                    TmpltbankPattern, InspiralPattern, OutputDir, call.tags)
       IN  /\ workflow' = r.workflow
           /\ call' = [call EXCEPT !.stage_files = Append(@, r.plot_files)]
    /\ pc' = "sp_plotinspiralrange"
    /\ UNCHANGED <<fs, ncalls>>

SummaryPlotsPlotInspiralRange ==
    /\ pc = "sp_plotinspiralrange"
    /\ LET r == plotinspiralrange_files(workflow, call.input_files,
                    CacheFilename, TmpltbankPattern, InspiralPattern,
                    OutputDir, call.tags)
       IN  /\ workflow' = r.workflow
           /\ call' = [call EXCEPT !.stage_files = Append(@, r.plot_files)]
    /\ pc' = "sp_plotnumtemplates"
    /\ UNCHANGED <<fs, ncalls>>

SummaryPlotsPlotNumTemplates ==
    /\ pc = "sp_plotnumtemplates"
    /\ LET r == plotnumtemplates_files(workflow, call.input_files,
                    CacheFilename, TmpltbankPattern, InspiralPattern,
                    OutputDir, call.tags)
       IN  /\ workflow' = r.workflow
           /\ call' = [call EXCEPT !.stage_files = Append(@, r.plot_files)]
    /\ pc' = "sp_concatenate"
    /\ UNCHANGED <<fs, ncalls>>

SummaryPlotsReturn ==
    /\ pc = "sp_concatenate"
    /\ call' = [call EXCEPT !.status = "returned",
                            !.plot_files = concatenate_plot_files(call.stage_files)]
    /\ pc' = "idle"
    /\ UNCHANGED <<workflow, fs, ncalls>>

----------------------------------------------------------------------------
(* setup_hardware_injection_page, one step per external call.              *)

\* lines 373-388: the output directory, the executable, the local path
HwinjEnter ==
    /\ CanCall
    /\ \E tags \in TagLists, input_files \in InputLists :
          call' = Enter("setup_hardware_injection_page", tags, input_files)
    /\ fs' = makedirs(OutputDir)
    /\ pc' = "hw_urlretrieve"
    /\ ncalls' = ncalls + 1
    /\ UNCHANGED workflow

\* urllib.urlretrieve succeeds: the definer file is at the local path
HwinjFetched ==
    /\ pc = "hw_urlretrieve"
    /\ fs' = [fs EXCEPT !.files = @ \cup {hwinjDefNewPath(workflow, OutputDir)}]
    /\ pc' = "hw_cp_set"
    /\ UNCHANGED <<workflow, call, ncalls>>

\* urllib.urlretrieve raises: the exception leaves the routine
HwinjFetchFails ==
    /\ pc = "hw_urlretrieve"
    /\ call' = [call EXCEPT !.status = "raised", !.error = "urlretrieve"]
    /\ pc' = "idle"
    /\ UNCHANGED <<workflow, fs, ncalls>>

\* workflow.cp.set(..., "hwinj-definer-file", hwinjDefNewPath)
HwinjSetDefinerFile ==
    /\ pc = "hw_cp_set"
    /\ workflow' = cp_set_definer_file(workflow, hwinjDefNewPath(workflow, OutputDir))
    /\ pc' = "hw_segments"
    /\ UNCHANGED <<fs, call, ncalls>>

\* get_hardware_injection_segment_files: the log directory is made and
\* make_external_call returns, the segments written to output_dir
HwinjSegmentsFound ==
    /\ pc = "hw_segments"
    /\ fs' = [makedirs(PathJoin(OutputDir, LOGS))
                EXCEPT !.segment_dirs = @ \cup {OutputDir}]
    /\ pc' = "hw_node"
    /\ UNCHANGED <<workflow, call, ncalls>>

\* get_hardware_injection_segment_files: the log directory is made and
\* make_external_call raises
HwinjSegmentsFail ==
    /\ pc = "hw_segments"
    /\ fs' = makedirs(PathJoin(OutputDir, LOGS))
    /\ call' = [call EXCEPT !.status = "raised", !.error = "make_external_call"]
    /\ pc' = "idle"
    /\ UNCHANGED <<workflow, ncalls>>

\* lines 397-424
HwinjCreateNode ==
    /\ pc = "hw_node"
    /\ LET r == hwinj_create_node(workflow, call.input_files, CacheFilename,
                                  InspiralPattern, OutputDir, call.tags)
       IN  /\ workflow' = r.workflow
           /\ call' = [call EXCEPT !.status = "returned",
                                   !.plot_files = r.plot_files]
    /\ pc' = "idle"
    /\ UNCHANGED <<fs, ncalls>>

----------------------------------------------------------------------------

Next ==
    \/ CallPlotInspiral
    \/ CallPlotNumTemplates
    \/ CallPlotThinca
    \/ CallPlotInspiralRange
    \/ SummaryPlotsEnter
    \/ SummaryPlotsPlotInspiral
    \/ SummaryPlotsPlotInspiralRange
    \/ SummaryPlotsPlotNumTemplates
    \/ SummaryPlotsReturn
    \/ HwinjEnter
    \/ HwinjFetched
    \/ HwinjFetchFails
    \/ HwinjSetDefinerFile
    \/ HwinjSegmentsFound
    \/ HwinjSegmentsFail
    \/ HwinjCreateNode

Spec == Init /\ [][Next]_vars

----------------------------------------------------------------------------
(* What a call did, read off the state.                                    *)

\* the nodes the running or last call has added to the workflow
Added ==
    SubSeq(workflow.nodes, Len(call.workflow0.nodes) + 1, Len(workflow.nodes))

\* the dependency edges the running or last call has added
AddedDeps ==
    SubSeq(workflow.deps, Len(call.workflow0.deps) + 1, Len(workflow.deps))

\* the call only appended to the node and edge collections
OnlyAppended ==
    /\ Len(workflow.nodes) >= Len(call.workflow0.nodes)
    /\ Len(workflow.deps) >= Len(call.workflow0.deps)
    /\ SubSeq(workflow.nodes, 1, Len(call.workflow0.nodes)) = call.workflow0.nodes
    /\ SubSeq(workflow.deps, 1, Len(call.workflow0.deps)) = call.workflow0.deps

Returned(routine) == call.routine = routine /\ call.status = "returned"

PlotRoutines ==
    { "setup_plotinspiral", "setup_plotnumtemplates", "setup_plotthinca",
      "setup_plotinspiralrange" }

----------------------------------------------------------------------------
(* C1                                                                      *)

\* C1 as stated: with a non-empty tags list, each of setup_plotinspiral,
\* setup_plotnumtemplates and setup_plotinspiralrange adds exactly
\* len(tags) nodes in one call.
C1_LenTagsNodes ==
    \A r \in { "setup_plotinspiral", "setup_plotnumtemplates",
               "setup_plotinspiralrange" } :
        (Returned(r) /\ call.tags # <<>>) =>
            /\ OnlyAppended
            /\ Len(Added) = Len(call.tags)

\* C1 amended: with a non-empty tags list, setup_plotnumtemplates and
\* setup_plotinspiralrange add exactly len(tags) nodes in one call, and
\* setup_plotinspiral adds exactly len(tags) * len(ifo_list) nodes, one per
\* (tag, detector) pair.
C1_NodeCounts ==
    /\ \A r \in { "setup_plotnumtemplates", "setup_plotinspiralrange" } :
          (Returned(r) /\ call.tags # <<>>) =>
              /\ OnlyAppended
              /\ Len(Added) = Len(call.tags)
    /\ (Returned("setup_plotinspiral") /\ call.tags # <<>>) =>
          /\ OnlyAppended
          /\ Len(Added) = Len(call.tags) * Len(workflow.ifos)

\* setup_plotinspiral has returned from a call with two tags on a workflow
\* of three detectors, six nodes added
C1_Witness ==
    /\ Returned("setup_plotinspiral")
    /\ Len(call.tags) = 2
    /\ Len(workflow.ifos) = 3
    /\ Len(Added) = 6

----------------------------------------------------------------------------
(* C2                                                                      *)

HasEdge(parent, child) ==
    \E i \in 1..Len(workflow.deps) :
        workflow.deps[i] = [parent |-> parent, child |-> child]

----------------------------------------------------------------------------
(* C3                                                                      *)

\* C3 as stated: a call of any of the five stage-setup routines with
\* tags=[] returns an empty file list and adds no node and no edge.
C3_EmptyTagsNoOp ==
    \A r \in PlotRoutines \cup { "setup_hardware_injection_page" } :
        (Returned(r) /\ call.tags = <<>>) =>
            /\ call.plot_files = <<>>
            /\ workflow.nodes = call.workflow0.nodes
            /\ workflow.deps = call.workflow0.deps

\* C3 amended: a call of setup_plotinspiral, setup_plotnumtemplates,
\* setup_plotthinca or setup_plotinspiralrange with tags=[] returns an empty
\* file list and adds no node and no edge, for any input_files and detector
\* list; setup_hardware_injection_page does not depend on tags in this way:
\* called with tags=[] it still adds exactly one node and one edge per
\* input file.
C3_EmptyTagsPlotRoutines ==
    /\ \A r \in PlotRoutines :
          (Returned(r) /\ call.tags = <<>>) =>
              /\ call.plot_files = <<>>
              /\ workflow.nodes = call.workflow0.nodes
              /\ workflow.deps = call.workflow0.deps
    /\ (Returned("setup_hardware_injection_page") /\ call.tags = <<>>) =>
          /\ OnlyAppended
          /\ Len(Added) = 1
          /\ Len(AddedDeps) = Len(call.input_files)

\* setup_plotthinca has returned from a call with tags=[] on a workflow of
\* three detectors, given two input files
C3_Witness ==
    /\ Returned("setup_plotthinca")
    /\ call.tags = <<>>
    /\ Len(workflow.ifos) = 3
    /\ Len(call.input_files) = 2
    /\ workflow.nodes = call.workflow0.nodes

----------------------------------------------------------------------------
(* C4                                                                      *)

RECURSIVE Binomial(_, _)
\* C(n, k), by Pascal's rule
Binomial(n, k) ==
    IF k = 0 THEN 1
    ELSE IF n = 0 THEN 0
    ELSE Binomial(n - 1, k - 1) + Binomial(n - 1, k)

RECURSIVE SumBinomial(_, _)
\* the sum over i = from..k of C(k, i)
SumBinomial(k, from) ==
    IF from > k THEN 0 ELSE Binomial(k, from) + SumBinomial(k, from + 1)

\* the position of a detector in the workflow's detector list
Position(ifo) == CHOOSE i \in 1..Len(workflow.ifos) : workflow.ifos[i] = ifo

\* the positions of a combination's detectors, in the combination's order
Positions(combo) == [j \in 1..Len(combo) |-> Position(combo[j])]

\* p comes before q in lexicographic order (p and q of the same length)
LexLess(p, q) ==
    \E j \in 1..Len(p) :
        /\ p[j] < q[j]
        /\ \A h \in 1..(j - 1) : p[h] = q[h]

\* C4: for a detector list of size k (k = 0 and k = 1 included), ifo_combos
\* holds exactly the sum over i = 2..k of C(k, i) detector subsets, each of
\* size 2..k and none repeated; the order is fixed by the detector list
\* alone: sizes ascending, and within one size the order of the detector
\* list, each subset itself in the order of the detector list.
C4_IfoCombos ==
    LET k == Len(workflow.ifos)
        combos == ifo_combos(workflow.ifos)
    IN  /\ Len(combos) = SumBinomial(k, 2)
        /\ \A i \in 1..Len(combos) :
              /\ Len(combos[i]) >= 2
              /\ Len(combos[i]) <= k
              /\ \A j \in 1..Len(combos[i]) :
                    \E d \in 1..k : combos[i][j] = workflow.ifos[d]
              /\ \A j \in 1..(Len(combos[i]) - 1) :
                    Position(combos[i][j]) < Position(combos[i][j + 1])
        /\ \A i \in 1..Len(combos) : \A j \in 1..Len(combos) :
              (i < j) =>
                  \/ Len(combos[i]) < Len(combos[j])
                  \/ /\ Len(combos[i]) = Len(combos[j])
                     /\ LexLess(Positions(combos[i]), Positions(combos[j]))
        /\ Cardinality({ { combos[i][j] : j \in 1..Len(combos[i]) } :
                            i \in 1..Len(combos) }) = Len(combos)
        /\ (k <= 1) => combos = <<>>

\* setup_plotthinca has returned on a workflow of three detectors, one node
\* for each of the four subsets
C4_Witness ==
    /\ Returned("setup_plotthinca")
    /\ Len(workflow.ifos) = 3
    /\ Len(call.tags) = 1
    /\ Len(ifo_combos(workflow.ifos)) = 4
    /\ Len(Added) = 4

----------------------------------------------------------------------------
(* C5                                                                      *)

\* the values of option opt on a node, in the order they were attached
OptValues(node, opt) ==
    LET at == { i \in 1..Len(node.options) : node.options[i].opt = opt }
    IN  { node.options[i].val : i \in at }

HasOpt(node, opt) == OptValues(node, opt) # {}

\* the option is attached once, with this value
OptIs(node, opt, value) ==
    /\ OptValues(node, opt) = { value }
    /\ Cardinality({ i \in 1..Len(node.options) : node.options[i].opt = opt }) = 1

\* the option name ends in "-triggers"
IsTriggersOpt(opt) ==
    /\ Len(opt) > Len(TRIGGERS_SUFFIX)
    /\ SubSeq(opt, Len(opt) - Len(TRIGGERS_SUFFIX) + 1, Len(opt)) = TRIGGERS_SUFFIX

TriggersOpts(node) ==
    { node.options[i].opt : i \in { j \in 1..Len(node.options) :
                                       IsTriggersOpt(node.options[j].opt) } }

SECOND_H1L1 == <<"S", "E", "C", "O", "N", "D", "_", "H", "1", "L", "1">>
SECOND_H1V1 == <<"S", "E", "C", "O", "N", "D", "_", "H", "1", "V", "1">>
SECOND_L1V1 == <<"S", "E", "C", "O", "N", "D", "_", "L", "1", "V", "1">>
SECOND_H1L1V1 == <<"S", "E", "C", "O", "N", "D", "_", "H", "1", "L", "1", "V", "1">>
H1_TRIGGERS == <<"-", "-", "h", "1", "-", "t", "r", "i", "g", "g", "e", "r", "s">>
L1_TRIGGERS == <<"-", "-", "l", "1", "-", "t", "r", "i", "g", "g", "e", "r", "s">>
V1_TRIGGERS == <<"-", "-", "v", "1", "-", "t", "r", "i", "g", "g", "e", "r", "s">>

\* the detector names of a node's --ifo-times value, a concatenation of
\* two-character names
RECURSIVE SplitIfos(_)
SplitIfos(text) ==
    IF Len(text) < 2 THEN <<>>
    ELSE <<SubSeq(text, 1, 2)>> \o SplitIfos(SubSeq(text, 3, Len(text)))

\* C5: setup_plotthinca adds exactly one node per (tag, detector subset)
\* pair; with detectors [H1, L1, V1] and tags [full_data] these are 4 nodes,
\* for {H1,L1}, {H1,V1}, {L1,V1}, {H1,L1,V1} in this order; each node's
\* --ifo-tag is 'SECOND_' followed by the concatenation of its subset's
\* detectors in list order, its --ifo-times is that concatenation, and its
\* --<ifo>-triggers flags are those of the subset's detectors, lower-cased,
\* and no others.
C5_ThincaNodes ==
    Returned("setup_plotthinca") =>
        LET combos == ifo_combos(workflow.ifos)
            m == Len(combos)
        IN  /\ OnlyAppended
            /\ Len(Added) = Len(call.tags) * m
            /\ \A t \in 1..Len(call.tags) : \A c \in 1..m :
                  LET node == Added[(t - 1) * m + c]
                      text == Join(combos[c])
                  IN  /\ OptIs(node, OPT_IFO_TIMES, text)
                      /\ OptIs(node, OPT_IFO_TAG, SECOND_ \o text)
                      /\ SplitIfos(text) = combos[c]
                      /\ TriggersOpts(node) =
                            { <<"-", "-">> \o Lower(combos[c][j]) \o TRIGGERS_SUFFIX :
                                  j \in 1..Len(combos[c]) }
                      /\ Cardinality(TriggersOpts(node)) = Len(combos[c])
            /\ (workflow.ifos = <<H1, L1, V1>> /\ call.tags = <<full_data>>) =>
                  /\ Len(Added) = 4
                  /\ OptIs(Added[1], OPT_IFO_TAG, SECOND_H1L1)
                  /\ OptIs(Added[2], OPT_IFO_TAG, SECOND_H1V1)
                  /\ OptIs(Added[3], OPT_IFO_TAG, SECOND_L1V1)
                  /\ OptIs(Added[4], OPT_IFO_TAG, SECOND_H1L1V1)
                  /\ OptIs(Added[1], OPT_IFO_TIMES, <<"H", "1", "L", "1">>)
                  /\ OptIs(Added[2], OPT_IFO_TIMES, <<"H", "1", "V", "1">>)
                  /\ OptIs(Added[3], OPT_IFO_TIMES, <<"L", "1", "V", "1">>)
                  /\ OptIs(Added[4], OPT_IFO_TIMES, <<"H", "1", "L", "1", "V", "1">>)
                  /\ TriggersOpts(Added[1]) = { H1_TRIGGERS, L1_TRIGGERS }
                  /\ TriggersOpts(Added[2]) = { H1_TRIGGERS, V1_TRIGGERS }
                  /\ TriggersOpts(Added[3]) = { L1_TRIGGERS, V1_TRIGGERS }
                  /\ TriggersOpts(Added[4]) = { H1_TRIGGERS, L1_TRIGGERS, V1_TRIGGERS }

\* setup_plotthinca has returned from the call with detectors [H1, L1, V1]
\* and tags [full_data]
C5_Witness ==
    /\ Returned("setup_plotthinca")
    /\ workflow.ifos = <<H1, L1, V1>>
    /\ call.tags = <<full_data>>
    /\ Len(Added) = 4
    /\ OptIs(Added[4], OPT_IFO_TAG, SECOND_H1L1V1)

----------------------------------------------------------------------------
(* C6                                                                      *)

\* C6: a successful call of setup_hardware_injection_page adds exactly one
\* node, whatever the number of tags, and returns a file list holding
\* exactly one declared output file: the HWINJ_SUMMARY html report keyed by
\* the full detector-set string and the analysis window, owned by that node.
C6_OneNodeOneFile ==
    Returned("setup_hardware_injection_page") =>
        /\ OnlyAppended
        /\ Len(Added) = 1
        /\ Len(call.plot_files) = 1
        /\ call.plot_files[1].description = HWINJ_SUMMARY
        /\ call.plot_files[1].extension = HTML
        /\ call.plot_files[1].ifo_string = Join(workflow.ifos)
        /\ call.plot_files[1].segment = workflow.analysis_time
        /\ call.plot_files[1].node = Added[1].id

\* the part of C6 the code keeps: exactly one node, whatever the tags
C6_OneNode ==
    Returned("setup_hardware_injection_page") =>
        /\ OnlyAppended
        /\ Len(Added) = 1

\* setup_hardware_injection_page has returned from a call with two tags
C6_Witness ==
    /\ Returned("setup_hardware_injection_page")
    /\ Len(call.tags) = 2
    /\ Len(Added) = 1

----------------------------------------------------------------------------
(* C7                                                                      *)

InHwinj == call.routine = "setup_hardware_injection_page"

LocalPath == PathJoin(OutputDir, Basename(DefinerUrl))

\* C7: setup_hardware_injection_page fetches the definer document, then
\* stores the local path in the shared configuration, then runs the segment
\* query, then creates and registers its node.  A failing fetch or segment
\* query leaves the routine at once (no retry) with the workflow's node and
\* edge collections as they were on entry.  A failing fetch leaves the
\* configuration as it was; a failing segment query leaves the local path
\* stored in it: the configuration is not restored.
C7_HwinjOrderAndFailure ==
    InHwinj =>
        \* the order of the steps
        /\ (pc \in { "hw_cp_set", "hw_segments", "hw_node" }) =>
              LocalPath \in fs.files
        /\ (pc = "hw_urlretrieve" \/ pc = "hw_cp_set") =>
              workflow.cp = call.workflow0.cp
        /\ (pc \in { "hw_segments", "hw_node" }) =>
              workflow.cp.hwinj_definer_file = LocalPath
        /\ (pc = "hw_node") => OutputDir \in fs.segment_dirs
        /\ (call.status = "running") =>
              /\ workflow.nodes = call.workflow0.nodes
              /\ workflow.deps = call.workflow0.deps
        /\ (Added # <<>>) =>
              /\ call.status = "returned"
              /\ LocalPath \in fs.files
              /\ workflow.cp.hwinj_definer_file = LocalPath
              /\ OutputDir \in fs.segment_dirs
        \* a failure
        /\ (call.status = "raised") =>
              /\ pc = "idle"
              /\ call.error \in { "urlretrieve", "make_external_call" }
              /\ workflow.nodes = call.workflow0.nodes
              /\ workflow.deps = call.workflow0.deps
              /\ call.plot_files = <<>>
        /\ (call.status = "raised" /\ call.error = "urlretrieve") =>
              workflow.cp = call.workflow0.cp
        /\ (call.status = "raised" /\ call.error = "make_external_call") =>
              /\ workflow.cp.hwinj_definer_file = LocalPath
              /\ workflow.cp # call.workflow0.cp \/ call.workflow0.cp.hwinj_definer_file = LocalPath
              /\ LocalPath \in fs.files

\* the segment query of setup_hardware_injection_page has failed on a call
\* with two input files: the configuration holds the local path, which it
\* did not on entry, and no node was added
C7_Witness ==
    /\ InHwinj
    /\ call.status = "raised"
    /\ call.error = "make_external_call"
    /\ Len(call.input_files) = 2
    /\ call.workflow0.cp.hwinj_definer_file = <<>>
    /\ workflow.cp.hwinj_definer_file = LocalPath
    /\ workflow.nodes = call.workflow0.nodes

----------------------------------------------------------------------------
(* C8                                                                      *)

InSummaryPlots == call.routine = "setup_summary_plots"

\* the names of the executables of the nodes the call added, in order
AddedNames == [j \in 1..Len(Added) |-> Added[j].executable.name]

\* n copies of x
Repeat(x, n) == [j \in 1..n |-> x]

\* every added node has its edge from every input file, and the edges were
\* added node after node
AddedDepsComplete ==
    /\ Len(AddedDeps) = Len(call.input_files) * Len(Added)
    /\ \A j \in 1..Len(Added) : \A i \in 1..Len(call.input_files) :
          AddedDeps[(j - 1) * Len(call.input_files) + i] =
              [parent |-> call.input_files[i].node, child |-> Added[j].id]

\* the option name starts with 'SECOND_' as a value of --ifo-tag
IsSecondTag(value) ==
    /\ Len(value) >= Len(SECOND_)
    /\ SubSeq(value, 1, Len(SECOND_)) = SECOND_

\* C8: setup_summary_plots runs setup_plotinspiral, then
\* setup_plotinspiralrange, then setup_plotnumtemplates, each stage having
\* registered all its nodes and edges before the next starts, and returns
\* the concatenation of their returned lists in that order; it never calls
\* setup_plotthinca: no node it adds carries a 'SECOND_' ifo-tag or a
\* --coinc-pattern option.
C8_DispatcherOrder ==
    InSummaryPlots =>
        LET nt == Len(call.tags)
            ni == Len(workflow.ifos)
            first == Repeat("plotinspiral", nt * ni)
            second == Repeat("plotinspiralrange", nt)
            third == Repeat("plotnumtemplates", nt)
        IN  /\ OnlyAppended
            /\ AddedDepsComplete
            /\ (pc = "sp_plotinspiral") =>
                  AddedNames = <<>> /\ call.stage_files = <<>>
            /\ (pc = "sp_plotinspiralrange") =>
                  AddedNames = first /\ Len(call.stage_files) = 1
            /\ (pc = "sp_plotnumtemplates") =>
                  AddedNames = first \o second /\ Len(call.stage_files) = 2
            /\ (pc = "sp_concatenate" \/ call.status = "returned") =>
                  AddedNames = first \o second \o third /\ Len(call.stage_files) = 3
            /\ (call.status = "returned") =>
                  /\ pc = "idle"
                  /\ call.plot_files = call.stage_files[1] \o call.stage_files[2]
                                          \o call.stage_files[3]
            /\ \A j \in 1..Len(Added) :
                  /\ Added[j].executable.name # "plotthinca"
                  /\ ~HasOpt(Added[j], OPT_COINC_PATTERN)
                  /\ \A v \in OptValues(Added[j], OPT_IFO_TAG) : ~IsSecondTag(v)

\* setup_summary_plots has returned from a call with two tags and two input
\* files on a workflow of three detectors: 6 + 2 + 2 nodes
C8_Witness ==
    /\ InSummaryPlots
    /\ call.status = "returned"
    /\ Len(call.tags) = 2
    /\ Len(call.input_files) = 2
    /\ Len(workflow.ifos) = 3
    /\ Len(Added) = 10
    /\ Added[6].executable.name = "plotinspiral"
    /\ Added[7].executable.name = "plotinspiralrange"
    /\ Added[9].executable.name = "plotnumtemplates"

----------------------------------------------------------------------------
(* C9                                                                      *)

FULL_DATA_SUMMARY_PLOTS == <<"F", "U", "L", "L", "_", "D", "A", "T", "A", "_", "S", "U", "M", "M", "A", "R", "Y", "_", "P", "L", "O", "T", "S">>
PLAYGROUND_SUMMARY_PLOTS == <<"P", "L", "A", "Y", "G", "R", "O", "U", "N", "D", "_", "S", "U", "M", "M", "A", "R", "Y", "_", "P", "L", "O", "T", "S">>
INJ_SUMMARY_PLOTS == <<"I", "N", "J", "_", "S", "U", "M", "M", "A", "R", "Y", "_", "P", "L", "O", "T", "S">>

\* the --user-tag value expected for a tag: the tag in upper case followed
\* by '_SUMMARY_PLOTS', written out
ExpectedUserTag(tag) ==
    CASE tag = full_data -> FULL_DATA_SUMMARY_PLOTS
      [] tag = playground -> PLAYGROUND_SUMMARY_PLOTS
      [] tag = injections -> INJ_SUMMARY_PLOTS

\* the decimal text expected for a GPS time of AnalysisTimes, written out
ExpectedTime(t) ==
    CASE t = 9 -> <<"9">>
      [] t = 12 -> <<"1", "2">>
      [] t = 100 -> <<"1", "0", "0">>
      [] t = 205 -> <<"2", "0", "5">>

\* the options C9 lists, --ifo-tag left aside
HasCommonOptions(node) ==
    /\ OptIs(node, OPT_GPS_START, ExpectedTime(workflow.analysis_time[1]))
    /\ OptIs(node, OPT_GPS_END, ExpectedTime(workflow.analysis_time[2]))
    /\ OptIs(node, OPT_CACHE_FILE, CacheFilename)
    /\ HasOpt(node, OPT_IFO_TIMES)
    /\ \E i \in 1..Len(node.executable.tags) :
          OptIs(node, OPT_USER_TAG, ExpectedUserTag(node.executable.tags[i]))
    /\ OptIs(node, OPT_OUTPUT_PATH, OutputDir)
    /\ \/ HasOpt(node, OPT_TRIG_PATTERN)
       \/ HasOpt(node, OPT_BANK_PATTERN)
       \/ HasOpt(node, OPT_COINC_PATTERN)
       \/ HasOpt(node, OPT_SLIDE_PATTERN)
    /\ OptIs(node, OPT_ENABLE_OUTPUT, NoValue)
    /\ node.options[Len(node.options)].opt = OPT_ENABLE_OUTPUT

\* the registered nodes of an executable
NodesOf(name) ==
    { workflow.nodes[i] : i \in { j \in 1..Len(workflow.nodes) :
                                     workflow.nodes[j].executable.name = name } }

\* C9 as stated: every node added by each of the four plot routines carries
\* --gps-start-time, --gps-end-time, --cache-file, --ifo-times, --ifo-tag,
\* --user-tag (the upper-cased tag followed by '_SUMMARY_PLOTS'),
\* --output-path, at least one pattern option and --enable-output.
C9_AllRequiredOptions ==
    \A name \in { "plotinspiral", "plotnumtemplates", "plotthinca",
                  "plotinspiralrange" } :
        \A node \in NodesOf(name) :
            /\ HasCommonOptions(node)
            /\ HasOpt(node, OPT_IFO_TAG)

\* C9 amended: every node added by each of the four plot routines carries
\* --gps-start-time, --gps-end-time, --cache-file, --ifo-times, --user-tag
\* (the upper-cased tag followed by '_SUMMARY_PLOTS'), --output-path, at
\* least one pattern option and --enable-output, all attached before the
\* node is registered; the nodes of setup_plotinspiral and setup_plotthinca
\* also carry --ifo-tag, and the nodes of setup_plotnumtemplates and
\* setup_plotinspiralrange carry no --ifo-tag.
C9_RequiredOptions ==
    /\ \A name \in { "plotinspiral", "plotnumtemplates", "plotthinca",
                     "plotinspiralrange" } :
          \A node \in NodesOf(name) : HasCommonOptions(node)
    /\ \A name \in { "plotinspiral", "plotthinca" } :
          \A node \in NodesOf(name) :
              /\ HasOpt(node, OPT_IFO_TAG)
              /\ HasOpt(node, OPT_IFO_TIMES)
    /\ \A name \in { "plotnumtemplates", "plotinspiralrange" } :
          \A node \in NodesOf(name) :
              /\ ~HasOpt(node, OPT_IFO_TAG)
              /\ OptIs(node, OPT_IFO_TIMES, Join(workflow.ifos))
    /\ \A node \in NodesOf("plotinspiral") :
          /\ OptIs(node, OPT_TRIG_PATTERN, InspiralPattern)
          /\ \E v \in OptValues(node, OPT_IFO_TIMES) :
                OptIs(node, OPT_IFO_TAG, FIRST_ \o v)
    /\ \A node \in NodesOf("plotnumtemplates") :
          OptIs(node, OPT_BANK_PATTERN, TmpltbankPattern)
    /\ \A node \in NodesOf("plotinspiralrange") :
          /\ OptIs(node, OPT_BANK_PATTERN, TmpltbankPattern)
          /\ OptIs(node, OPT_TRIG_PATTERN, InspiralPattern)
    /\ \A node \in NodesOf("plotthinca") :
          /\ OptIs(node, OPT_COINC_PATTERN, CoincPattern)
          /\ OptIs(node, OPT_SLIDE_PATTERN, SlidePattern)

\* setup_plotinspiralrange has returned from a call with tags [full_data,
\* playground]: its second node carries the user tag of playground and no
\* --ifo-tag
C9_Witness ==
    /\ Returned("setup_plotinspiralrange")
    /\ call.tags = <<full_data, playground>>
    /\ Len(Added) = 2
    /\ OptIs(Added[2], OPT_USER_TAG, PLAYGROUND_SUMMARY_PLOTS)
    /\ ~HasOpt(Added[2], OPT_IFO_TAG)
    /\ HasOpt(Added[2], OPT_ENABLE_OUTPUT)

----------------------------------------------------------------------------
(* C10                                                                     *)

====
